---- MODULE Spec2Model ----
(***************************************************************************)
(* Turn-processing state machine of the phone-call agent                   *)
(* (src/app/api/call.py, src/app/services/simple_info_collector.py,        *)
(* src/app/models/call.py).                                                *)
(*                                                                         *)
(* A request of POST /ai/conversation or POST /ai/reply runs one turn.  The *)
(* handler is a coroutine: it runs from one await to the next without      *)
(* interruption and gives way at each await (intent classifier, calllog    *)
(* POST, extraction LLM).  One action starts a request and runs it to its  *)
(* first await; one action per awaited collaborator takes the answer and   *)
(* runs the handler to its next await or to its response.  The answers of  *)
(* the collaborators are the inputs of the actions, drawn from small sets. *)
(*                                                                         *)
(* Python values: None is the string "None", a str is a TLA+ string, a     *)
(* dict is a record, a missing dict key is the string "<absent>".          *)
(***************************************************************************)
EXTENDS Naturals, Sequences, FiniteSets, TLC

VARIABLES
    store,      \* Redis: callSid -> the CallSkeleton fields the turn reads/writes
    turns,      \* callSid -> number of requests received so far
    calllogs,   \* callSid -> number of POSTs create_calllog sent to the backend
    inflight,   \* slot -> the request a handler coroutine is working on
    last,       \* the turn the step just taken responded to (request, calls,
                \* response); NoTurn when the step sent no response
    closings,   \* callSid -> number of turns that replied with the closing message
    derived,    \* the state get_collection_state returned when applied on its own
    attempts,   \* callSid -> consecutive failed extraction attempts of the active step
    alone       \* callSid -> the record the call's own turns give when run alone

vars == <<store, turns, calllogs, inflight, last, closings, derived, attempts, alone>>

-----------------------------------------------------------------------------
(* Bounds *)

\* Requests per call before the model stops sending more.
MaxTurns == 4

-----------------------------------------------------------------------------
(* Python values *)

None == "None"
Absent == "<absent>"

\* Python truthiness of an Optional[str]: None and "" are falsy.
Truthy(v) == v # None /\ v # ""

\* `a or b` on Optional[str].
PyOr(a, b) == IF Truthy(a) THEN a ELSE b

-----------------------------------------------------------------------------
(* Domains of the inputs *)

\* The calls the telephony layer may hold open.
CallSids == {"CA1", "CA2"}

\* The call the single-call specification Spec drives.
SingleCall == {"CA1"}

\* Non-empty texts an extraction can yield.
Texts == {"Alice", "Bob"}

\* What the extraction LLM can put under the value key of its JSON object.
JsonValues == {None, ""} \cup Texts

\* Text the extraction LLM writes under "response".
LLMResponseText == "<llm response>"

Intents == {"scam", "opportunity", "other"}

\* Outcomes of intent_classifier.classify_intent: a well-formed result (intent
\* and confidence in percent), a raised error, a timeout, or a result that
\* lacks one of the keys read inside the try.  text is str(e) of the exception
\* the try sees: the message of the error, "" for asyncio's TimeoutError, the
\* quoted key for the KeyError of a result without "reasoning".
ClassifierOutcomes ==
    {[kind |-> "ok", intent |-> "scam", confidence |-> 90, text |-> ""],
     [kind |-> "ok", intent |-> "opportunity", confidence |-> 90, text |-> ""],
     [kind |-> "ok", intent |-> "other", confidence |-> 40, text |-> ""],
     [kind |-> "raise", intent |-> None, confidence |-> 0,
      text |-> "classifier unavailable"],
     [kind |-> "timeout", intent |-> None, confidence |-> 0, text |-> ""],
     [kind |-> "malformed", intent |-> None, confidence |-> 0,
      text |-> "'reasoning'"]}

\* Outcomes of the POST in create_calllog.
CalllogOutcomes == {"201", "non201", "timeout", "exception"}

\* Outcomes of the chat completion of a Step Collector: a JSON object (each key
\* possibly absent), content that json.loads rejects, or an API error.
\* The flag key holds the JSON literal true or false ("true" / "false").
LLMOutcomes ==
    [kind : {"json"}, extracted : {"true", "false"}, value : JsonValues,
     response : {LLMResponseText}]
    \cup {[kind |-> "json", extracted |-> "true", value |-> "Alice",
           response |-> Absent],
          [kind |-> "json", extracted |-> "false", value |-> None,
           response |-> Absent],
          [kind |-> "json", extracted |-> Absent, value |-> "Alice",
           response |-> LLMResponseText],
          [kind |-> "notjson", extracted |-> Absent, value |-> Absent,
           response |-> Absent],
          [kind |-> "error", extracted |-> Absent, value |-> Absent,
           response |-> Absent]}

\* Placeholders recorded when a collaborator was not called in the turn.
NoClassifier ==
    [kind |-> "not_called", intent |-> None, confidence |-> 0, text |-> ""]
NoLLM == [kind |-> "not_called", extracted |-> Absent, value |-> Absent,
          response |-> Absent]

\* Outcomes of loading the record: found and valid, absent, present but failing
\* CallSkeleton validation, or a store failure.
LoadOutcomes == {"ok", "absent", "malformed", "store_error"}

-----------------------------------------------------------------------------
(* The call-record store (app.services.redis_service) *)

\* CallSkeleton as telephony creates it: UserInfo and the intent fields at
\* their defaults, caller number and start time optional.
NewCallSkeleton(callerNumber, callStartAt) ==
    [name |-> None, phone |-> None, address |-> None,
     intent |-> None, intentClassified |-> FALSE,
     callerNumber |-> callerNumber, callStartAt |-> callStartAt]

\* setIntent: stores the classification and marks the call as classified.
update_intent_classification(rec, intent) ==
    [rec EXCEPT !.intent = intent, !.intentClassified = TRUE]

\* setField: stores one userInfo field.
update_user_info_field(rec, field_name, field_value) ==
    [rec EXCEPT ![field_name] = field_value]

\* The exception the load raises, as its class and its str(e):
\* get_call_skeleton raises ValueError for an absent record, model_validate
\* raises pydantic's ValidationError, the store client raises its own error.
LoadException(load) ==
    CASE load = "absent" ->
             [type |-> "ValueError", text |-> "<record not found>"]
      [] load = "malformed" ->
             [type |-> "ValidationError", text |-> "<validation errors>"]
      [] load = "store_error" ->
             [type |-> "ConnectionError", text |-> "redis unavailable"]
      [] OTHER -> [type |-> None, text |-> ""]

-----------------------------------------------------------------------------
(* Exceptions *)

\* Python's isinstance for the exception classes the handlers name.  pydantic's
\* ValidationError derives from ValueError; every class derives from Exception.
IsInstance(exc, cls) ==
    \/ exc.type = cls
    \/ cls = "Exception"
    \/ exc.type = "ValidationError" /\ cls = "ValueError"

\* The except clauses of step 1, tried in source order: the HTTP status and
\* detail of the HTTPException raised.  The second and the third clause put
\* str(e) after a fixed prefix.
load_error(exc) ==
    IF IsInstance(exc, "ValueError")
    THEN [status |-> 422, detail |-> "CallSkeleton not found"]
    ELSE IF IsInstance(exc, "ValidationError")
    THEN [status |-> 400,
          detail |-> "Invalid CallSkeleton data format: " \o exc.text]
    ELSE [status |-> 500, detail |-> "Internal server error: " \o exc.text]

-----------------------------------------------------------------------------
(* create_calllog *)

\* Mutant: the exceptions of the POST are not caught.
create_calllog_uncaught(outcome) ==
    [raised |-> (outcome \in {"timeout", "exception"}),
     value |-> (outcome = "201")]

\* What the call of create_calllog gives its caller: the value True on a 201
\* response and False on any other; a timeout or any other exception of the
\* POST is caught inside and gives False, so nothing is raised to the caller.
create_calllog(outcome) ==
    [raised |-> FALSE, value |-> (outcome = "201")]

-----------------------------------------------------------------------------
(* get_collection_state *)

\* dict.get(key, default) on a parsed JSON object.
JsonGet(v, default) == IF v = Absent THEN default ELSE v

\* Mutant: the chain names no completed case.
current_step_of_no_completed(collected_name, collected_background, collected_additional) ==
    IF Truthy(collected_name) /\ Truthy(collected_background)
    THEN "additional_info"
    ELSE IF Truthy(collected_name)
    THEN "background"
    ELSE "name"

\* Mutant: the name-only test comes before the name-and-background test.
current_step_of_elif_order(collected_name, collected_background, collected_additional) ==
    IF Truthy(collected_name) /\ Truthy(collected_background)
       /\ Truthy(collected_additional)
    THEN "completed"
    ELSE IF Truthy(collected_name)
    THEN "background"
    ELSE IF Truthy(collected_name) /\ Truthy(collected_background)
    THEN "additional_info"
    ELSE "name"

\* Mutant: the chain covers the two middle steps only and the default "name"
\* of the state dict stays in every other case.
current_step_of_default_kept(collected_name, collected_background, collected_additional) ==
    IF Truthy(collected_name) /\ Truthy(collected_background)
       /\ ~Truthy(collected_additional)
    THEN "additional_info"
    ELSE IF Truthy(collected_name) /\ ~Truthy(collected_background)
    THEN "background"
    ELSE "name"

\* The current step from the three collected values (None when not collected).
\* Mutant: the completed test joins the three fields with `or`.
current_step_of_completed_any(collected_name, collected_background, collected_additional) ==
    IF Truthy(collected_name) \/ Truthy(collected_background)
       \/ Truthy(collected_additional)
    THEN "completed"
    ELSE IF Truthy(collected_name) /\ Truthy(collected_background)
    THEN "additional_info"
    ELSE IF Truthy(collected_name)
    THEN "background"
    ELSE "name"

current_step_of(collected_name, collected_background, collected_additional) ==
    IF Truthy(collected_name) /\ Truthy(collected_background)
       /\ Truthy(collected_additional)
    THEN "completed"
    ELSE IF Truthy(collected_name) /\ Truthy(collected_background)
    THEN "additional_info"
    ELSE IF Truthy(collected_name)
    THEN "background"
    ELSE "name"

\* Mutant: the name is normalised on user_info itself, which is the userInfo
\* object of the record and no copy of it: an empty name becomes None there.
default_state_normalised(callskeleton) ==
    [callskeleton |-> [callskeleton EXCEPT !.name = IF Truthy(@) THEN @ ELSE None],
     state |-> [current_step |-> "name",
                collected_name |-> IF Truthy(callskeleton.name)
                                   THEN callskeleton.name ELSE None,
                collected_background |-> None,
                collected_additional |-> None,
                name_retry_count |-> 0,
                background_retry_count |-> 0,
                additional_retry_count |-> 0,
                calllog_created |-> callskeleton.intentClassified]]

\* "Default state": the frame of get_collection_state after its first two
\* statements.  user_info names the userInfo object of its argument and state
\* is a new dict; the frame holds the argument as the statements leave it and
\* the dict.
default_state(callskeleton) ==
    [callskeleton |-> callskeleton,
     state |-> [current_step |-> "name",
                collected_name |-> IF Truthy(callskeleton.name)
                                   THEN callskeleton.name ELSE None,
                collected_background |-> None,
                collected_additional |-> None,
                name_retry_count |-> 0,
                background_retry_count |-> 0,
                additional_retry_count |-> 0,
                calllog_created |-> callskeleton.intentClassified]]

\* "Try to extract from address/phone fields": if user_info.address, the
\* address is assigned to state["collected_background"].
extract_background(frame) ==
    [frame EXCEPT !.state.collected_background =
                      IF Truthy(frame.callskeleton.address)
                      THEN frame.callskeleton.address ELSE @]

\* if user_info.phone, the phone is assigned to state["collected_additional"].
extract_additional(frame) ==
    [frame EXCEPT !.state.collected_additional =
                      IF Truthy(frame.callskeleton.phone)
                      THEN frame.callskeleton.phone ELSE @]

\* The if/elif chain reads the three collected entries of state and assigns
\* state["current_step"].
assign_current_step(state) ==
    [state EXCEPT !.current_step =
                      current_step_of(state.collected_name,
                                      state.collected_background,
                                      state.collected_additional)]

\* "Determine current step", on the state dict of the frame.
determine_current_step(frame) ==
    [frame EXCEPT !.state = assign_current_step(@)]

\* The statements of get_collection_state run in order on its argument: the
\* frame when the function returns.
get_collection_state_frame(callskeleton) ==
    determine_current_step(
        extract_additional(extract_background(default_state(callskeleton))))

\* get_collection_state returns the dict it built.
get_collection_state(callskeleton) ==
    get_collection_state_frame(callskeleton).state

-----------------------------------------------------------------------------
(* SimpleInfoCollector *)

\* settings.max_retries_per_step (app.config).
max_retries_per_step == 3

NameFallback == "May I have your name, please?"
BackgroundFallback == "Thank you. What brings you to call us today?"
AdditionalFallback ==
    "Is there anything else you'd like to share? "
    \o "What's the best way to contact you?"

\* The flag a collector reads with result.get(<flag>, False).
ExtractedFlag(llm) == JsonGet(llm.extracted, "false") = "true"

\* The value a collector reads with result.get(<key>): None for JSON null and
\* for a missing key.
ExtractedValue(llm) == JsonGet(llm.value, None)

collect_name(llm, retry_count) ==
    IF llm.kind = "json"
    THEN LET name_extracted == ExtractedFlag(llm)
             extracted_name == ExtractedValue(llm)
         IN  [response |-> JsonGet(llm.response, NameFallback),
              name_extracted |-> name_extracted,
              should_retry |-> ~name_extracted /\ retry_count < max_retries_per_step,
              name |-> IF name_extracted THEN extracted_name ELSE None,
              step_complete |-> name_extracted]
    ELSE [response |-> NameFallback,
          name_extracted |-> FALSE,
          should_retry |-> retry_count < max_retries_per_step,
          name |-> None,
          step_complete |-> FALSE]

\* Mutant: the except branch of collect_background was copied from
\* collect_name together with its question.
collect_background_copied_fallback(llm, retry_count) ==
    IF llm.kind = "json"
    THEN LET background_extracted == ExtractedFlag(llm)
             extracted_background == ExtractedValue(llm)
         IN  [response |-> JsonGet(llm.response, BackgroundFallback),
              background_extracted |-> background_extracted,
              should_retry |-> ~background_extracted /\ retry_count < max_retries_per_step,
              background |-> IF background_extracted
                             THEN extracted_background ELSE None,
              step_complete |-> background_extracted]
    ELSE [response |-> NameFallback,
          background_extracted |-> FALSE,
          should_retry |-> retry_count < max_retries_per_step,
          background |-> None,
          step_complete |-> FALSE]

collect_background(llm, retry_count) ==
    IF llm.kind = "json"
    THEN LET background_extracted == ExtractedFlag(llm)
             extracted_background == ExtractedValue(llm)
         IN  [response |-> JsonGet(llm.response, BackgroundFallback),
              background_extracted |-> background_extracted,
              should_retry |-> ~background_extracted /\ retry_count < max_retries_per_step,
              background |-> IF background_extracted
                             THEN extracted_background ELSE None,
              step_complete |-> background_extracted]
    ELSE [response |-> BackgroundFallback,
          background_extracted |-> FALSE,
          should_retry |-> retry_count < max_retries_per_step,
          background |-> None,
          step_complete |-> FALSE]

\* Mutant: the flag is read under a key the JSON object never has.
collect_additional_info_wrong_key(llm, retry_count) ==
    IF llm.kind = "json"
    THEN LET info_extracted == FALSE
             extracted_info == ExtractedValue(llm)
         IN  [response |-> JsonGet(llm.response, AdditionalFallback),
              additional_info_extracted |-> info_extracted,
              should_retry |-> ~info_extracted /\ retry_count < max_retries_per_step,
              additional_info |-> IF info_extracted THEN extracted_info ELSE None,
              step_complete |-> info_extracted]
    ELSE [response |-> AdditionalFallback,
          additional_info_extracted |-> FALSE,
          should_retry |-> retry_count < max_retries_per_step,
          additional_info |-> None,
          step_complete |-> FALSE]

collect_additional_info(llm, retry_count) ==
    IF llm.kind = "json"
    THEN LET info_extracted == ExtractedFlag(llm)
             extracted_info == ExtractedValue(llm)
         IN  [response |-> JsonGet(llm.response, AdditionalFallback),
              additional_info_extracted |-> info_extracted,
              should_retry |-> ~info_extracted /\ retry_count < max_retries_per_step,
              additional_info |-> IF info_extracted THEN extracted_info ELSE None,
              step_complete |-> info_extracted]
    ELSE [response |-> AdditionalFallback,
          additional_info_extracted |-> FALSE,
          should_retry |-> retry_count < max_retries_per_step,
          additional_info |-> None,
          step_complete |-> FALSE]

\* Mutant: the opportunity and the other template change places.
generate_closing_message_swapped(caller_name, intent_type) ==
    LET name_str == PyOr(caller_name, "")
        name_part == IF name_str # "" THEN ", " \o name_str ELSE ""
    IN  IF intent_type = "other"
        THEN "Thank you so much for reaching out" \o name_part \o ". "
             \o "I've recorded all your information and our team will contact you shortly to discuss this opportunity further. "
             \o "We appreciate your interest. Have a great day!"
        ELSE IF intent_type = "opportunity"
        THEN "Thank you for calling" \o name_part \o ". "
             \o "I've recorded your inquiry and our team will review it carefully. "
             \o "Someone from our office will get back to you as soon as possible. "
             \o "Have a good day!"
        ELSE "Thank you for your call" \o name_part \o ". "
             \o "I've noted your information and our team will follow up with you shortly. "
             \o "Have a great day!"

generate_closing_message(caller_name, intent_type) ==
    LET name_str == PyOr(caller_name, "")
        name_part == IF name_str # "" THEN ", " \o name_str ELSE ""
    IN  IF intent_type = "opportunity"
        THEN "Thank you so much for reaching out" \o name_part \o ". "
             \o "I've recorded all your information and our team will contact you shortly to discuss this opportunity further. "
             \o "We appreciate your interest. Have a great day!"
        ELSE IF intent_type = "other"
        THEN "Thank you for calling" \o name_part \o ". "
             \o "I've recorded your inquiry and our team will review it carefully. "
             \o "Someone from our office will get back to you as soon as possible. "
             \o "Have a good day!"
        ELSE "Thank you for your call" \o name_part \o ". "
             \o "I've noted your information and our team will follow up with you shortly. "
             \o "Have a great day!"

-----------------------------------------------------------------------------
(* ai_conversation, step by step *)

\* One call of a collaborator, as recorded in the turn's trace.
Call(op, args) == [op |-> op, args |-> args]

HasCall(calls, op) == \E i \in 1..Len(calls) : calls[i].op = op

CountCalls(calls, op) == Cardinality({i \in 1..Len(calls) : calls[i].op = op})

\* Step 3: the classification the turn works with.  Any exception inside the
\* try (a raised error, a timeout, a result lacking a key) gives the default,
\* whose reasoning ends with str(e).
intent_result(cls) ==
    IF cls.kind = "ok"
    THEN [intent |-> cls.intent, confidence |-> cls.confidence,
          reasoning |-> "<classifier reasoning>"]
    ELSE [intent |-> "other", confidence |-> 0,
          reasoning |-> "Classification failed: " \o cls.text]

\* str.replace('Z', '+00:00') on the start times telephony writes.
ReplaceZ(s) ==
    IF s = "2025-01-01T00:00:00Z" THEN "2025-01-01T00:00:00+00:00" ELSE s

\* The strings datetime.fromisoformat accepts, among those the model draws.
IsoFormatStrings == {"2025-01-01T00:00:00+00:00"}

\* datetime.fromisoformat: the datetime (named by its isoformat()) or a
\* ValueError.
fromisoformat(date_string) ==
    IF date_string \in IsoFormatStrings
    THEN [raised |-> FALSE, value |-> date_string]
    ELSE [raised |-> TRUE, value |-> None]

\* "Parse start time": nothing catches the ValueError of a start time that is
\* set and is no ISO 8601 text.
parse_start_at(callStartAt) ==
    IF Truthy(callStartAt)
    THEN fromisoformat(ReplaceZ(callStartAt))
    ELSE [raised |-> FALSE, value |-> "<now>"]

ScamMessage ==
    "Thank you for calling. I'm sorry, but I'm unable to assist with this matter. "
    \o "If you have a legitimate inquiry, please contact us through our official channels. "
    \o "Have a good day. Goodbye."

\* Mutant: the scam response lacks the hang-up flag.
scam_response_no_hangup ==
    [message |-> ScamMessage, shouldHangup |-> FALSE]

\* Step 4: the response of the scam branch.
scam_response ==
    [message |-> ScamMessage, shouldHangup |-> TRUE]

\* Mutant: the scam branch also creates the calllog, as the non-scam one does.
scam_branch_creates_calllog(callskeleton, ir) ==
    [status |-> 200, detail |-> Absent,
     message |-> scam_response.message,
     shouldHangup |-> scam_response.shouldHangup,
     rec |-> update_intent_classification(callskeleton, "scam"),
     calls |-> <<Call("update_intent_classification",
                      [intent |-> "scam", confidence |-> ir.confidence,
                       reasoning |-> ir.reasoning]),
                 Call("create_calllog",
                      [caller_number |-> PyOr(callskeleton.callerNumber, "Unknown"),
                       caller_name |-> PyOr(callskeleton.name, "Unknown Caller"),
                       start_at |-> parse_start_at(callskeleton.callStartAt).value,
                       intent |-> "scam",
                       outcome |-> "201"])>>,
     current_step |-> None]

\* Step 4: the whole scam branch.
scam_branch(callskeleton, ir) ==
    [status |-> 200, detail |-> Absent,
     message |-> scam_response.message,
     shouldHangup |-> scam_response.shouldHangup,
     rec |-> update_intent_classification(callskeleton, "scam"),
     calls |-> <<Call("update_intent_classification",
                      [intent |-> "scam", confidence |-> ir.confidence,
                       reasoning |-> ir.reasoning])>>,
     current_step |-> None]

\* Mutant: the calllog is created without looking at the flag.
needs_calllog_always(collection_state) == TRUE

\* Step 6: the gate of the calllog creation.
needs_calllog(collection_state) == ~collection_state.calllog_created

\* Mutant: the calllog is created first and the intent saved afterwards.
calllog_step_create_first(callskeleton, collection_state, ir, cr) ==
    IF needs_calllog(collection_state)
    THEN LET start_at == parse_start_at(callskeleton.callStartAt)
         IN  IF start_at.raised
             THEN [rec |-> callskeleton, calls |-> <<>>, raised |-> TRUE]
             ELSE [rec |-> update_intent_classification(callskeleton, ir.intent),
                   calls |-> <<Call("create_calllog",
                                    [caller_number |->
                                         PyOr(callskeleton.callerNumber, "Unknown"),
                                     caller_name |->
                                         PyOr(collection_state.collected_name,
                                              "Unknown Caller"),
                                     start_at |-> start_at.value,
                                     intent |-> ir.intent,
                                     outcome |-> cr]),
                               Call("update_intent_classification",
                                    [intent |-> ir.intent,
                                     confidence |-> ir.confidence,
                                     reasoning |-> ir.reasoning])>>,
                   raised |-> create_calllog(cr).raised]
    ELSE [rec |-> callskeleton, calls |-> <<>>, raised |-> FALSE]

\* Step 6: save the intent, parse the start time, then create the calllog; the
\* value create_calllog returns is not read.  A start time that does not parse
\* raises after the intent is saved and before the calllog is created.
calllog_step(callskeleton, collection_state, ir, cr) ==
    IF needs_calllog(collection_state)
    THEN LET saved == Call("update_intent_classification",
                           [intent |-> ir.intent,
                            confidence |-> ir.confidence,
                            reasoning |-> ir.reasoning])
             start_at == parse_start_at(callskeleton.callStartAt)
         IN  IF start_at.raised
             THEN [rec |-> update_intent_classification(callskeleton, ir.intent),
                   calls |-> <<saved>>, raised |-> TRUE]
             ELSE [rec |-> update_intent_classification(callskeleton, ir.intent),
                   calls |-> <<saved,
                               Call("create_calllog",
                                    [caller_number |->
                                         PyOr(callskeleton.callerNumber, "Unknown"),
                                     caller_name |->
                                         PyOr(collection_state.collected_name,
                                              "Unknown Caller"),
                                     start_at |-> start_at.value,
                                     intent |-> ir.intent,
                                     outcome |-> cr])>>,
                   raised |-> create_calllog(cr).raised]
    ELSE [rec |-> callskeleton, calls |-> <<>>, raised |-> FALSE]

\* Mutant: the extracted value is not tested.
should_persist_flag_only(step_complete, value) == step_complete

\* The test that guards each update_user_info_field of step 7.
should_persist(step_complete, value) == step_complete /\ Truthy(value)

\* Step 7: dispatch on the current step.  rec is the record as step 6 left it;
\* collection_state is the one derived from the record loaded in step 1.
collection_step(rec, collection_state, current_intent, llm) ==
    LET current_step == collection_state.current_step
        closing == generate_closing_message(collection_state.collected_name,
                                            current_intent)
    IN  IF current_step = "completed"
        THEN [rec |-> rec,
              calls |-> <<Call("generate_closing_message",
                               [caller_name |-> collection_state.collected_name,
                                intent_type |-> current_intent])>>,
              message |-> closing, should_hangup |-> TRUE]
        ELSE IF current_step = "name"
        THEN LET result == collect_name(llm, collection_state.name_retry_count)
                 save == should_persist(result.step_complete, result.name)
             IN  [rec |-> IF save
                          THEN update_user_info_field(rec, "name", result.name)
                          ELSE rec,
                  calls |-> <<Call("collect_name",
                                   [retry_count |-> collection_state.name_retry_count])>>
                            \o (IF save
                                THEN <<Call("update_user_info_field",
                                            [field_name |-> "name",
                                             field_value |-> result.name])>>
                                ELSE <<>>),
                  message |-> result.response, should_hangup |-> FALSE]
        ELSE IF current_step = "background"
        THEN LET result == collect_background(llm,
                                   collection_state.background_retry_count)
                 save == should_persist(result.step_complete, result.background)
             IN  [rec |-> IF save
                          THEN update_user_info_field(rec, "address",
                                                      result.background)
                          ELSE rec,
                  calls |-> <<Call("collect_background",
                                   [retry_count |->
                                        collection_state.background_retry_count])>>
                            \o (IF save
                                THEN <<Call("update_user_info_field",
                                            [field_name |-> "address",
                                             field_value |-> result.background])>>
                                ELSE <<>>),
                  message |-> result.response, should_hangup |-> FALSE]
        ELSE IF current_step = "additional_info"
        THEN LET result == collect_additional_info(llm,
                                   collection_state.additional_retry_count)
                 save == should_persist(result.step_complete,
                                        result.additional_info)
             IN  [rec |-> IF save
                          THEN update_user_info_field(rec, "phone",
                                                      result.additional_info)
                          ELSE rec,
                  calls |-> <<Call("collect_additional_info",
                                   [retry_count |->
                                        collection_state.additional_retry_count])>>
                            \o (IF save
                                THEN <<Call("update_user_info_field",
                                            [field_name |-> "phone",
                                             field_value |-> result.additional_info]),
                                       Call("generate_closing_message",
                                            [caller_name |->
                                                 collection_state.collected_name,
                                             intent_type |-> current_intent])>>
                                ELSE <<>>),
                  message |-> IF save THEN closing ELSE result.response,
                  should_hangup |-> save]
        ELSE [rec |-> rec, calls |-> <<>>, message |-> "",
              should_hangup |-> FALSE]

\* Steps 5 to 8: the non-scam branch.
non_scam_branch(callskeleton, ir, cr, llm) ==
    LET collection_state == get_collection_state(callskeleton)
        s6 == calllog_step(callskeleton, collection_state, ir, cr)
        s7 == collection_step(s6.rec, collection_state, ir.intent, llm)
    IN  IF s6.raised
        THEN [status |-> 500, detail |-> "Internal Server Error",
              message |-> Absent, shouldHangup |-> FALSE,
              rec |-> s6.rec, calls |-> s6.calls,
              current_step |-> collection_state.current_step]
        ELSE [status |-> 200, detail |-> Absent,
              message |-> s7.message, shouldHangup |-> s7.should_hangup,
              rec |-> s7.rec, calls |-> s6.calls \o s7.calls,
              current_step |-> collection_state.current_step]

\* Mutant: the lazy variant, which classifies only while the record holds no
\* classification and works with the stored intent afterwards.
conversation_turn_lazy(stored, load, cls, cr, llm) ==
    IF load # "ok"
    THEN LET e == load_error(LoadException(load))
         IN  [status |-> e.status, detail |-> e.detail,
              message |-> Absent, shouldHangup |-> FALSE,
              rec |-> stored,
              calls |-> <<Call("get_call_skeleton", [outcome |-> load])>>,
              current_step |-> None, current_intent |-> None,
              confidence |-> 0]
    ELSE LET reuse == stored.intentClassified /\ stored.intent # "scam"
             ir == IF reuse
                   THEN [intent |-> stored.intent, confidence |-> 0,
                         reasoning |-> "<stored>"]
                   ELSE intent_result(cls)
             respond(branch) ==
                 [status |-> branch.status, detail |-> branch.detail,
                  message |-> branch.message, shouldHangup |-> branch.shouldHangup,
                  rec |-> branch.rec,
                  calls |-> <<Call("get_call_skeleton", [outcome |-> load])>>
                            \o (IF reuse THEN <<>>
                                ELSE <<Call("classify_intent",
                                            [outcome |-> cls.kind])>>)
                            \o branch.calls,
                  current_step |-> branch.current_step,
                  current_intent |-> ir.intent,
                  confidence |-> ir.confidence]
         IN  respond(IF ir.intent = "scam"
                     THEN scam_branch(stored, ir)
                     ELSE non_scam_branch(stored, ir, cr, llm))

\* Mutant: the classifier is called before the record is loaded.
conversation_turn_classify_first(stored, load, cls, cr, llm) ==
    IF load # "ok"
    THEN LET e == load_error(LoadException(load))
         IN  [status |-> e.status, detail |-> e.detail,
              message |-> Absent, shouldHangup |-> FALSE,
              rec |-> stored,
              calls |-> <<Call("classify_intent", [outcome |-> cls.kind]),
                          Call("get_call_skeleton", [outcome |-> load])>>,
              current_step |-> None, current_intent |-> None,
              confidence |-> 0]
    ELSE LET ir == intent_result(cls)
             respond(branch) ==
                 [status |-> branch.status, detail |-> branch.detail,
                  message |-> branch.message, shouldHangup |-> branch.shouldHangup,
                  rec |-> branch.rec,
                  calls |-> <<Call("classify_intent", [outcome |-> cls.kind]),
                              Call("get_call_skeleton", [outcome |-> load])>>
                            \o branch.calls,
                  current_step |-> branch.current_step,
                  current_intent |-> ir.intent,
                  confidence |-> ir.confidence]
         IN  respond(IF ir.intent = "scam"
                     THEN scam_branch(stored, ir)
                     ELSE non_scam_branch(stored, ir, cr, llm))

\* The whole handler on the record `stored`, given the answers of the
\* collaborators it calls.  shouldHangup is TRUE when the response carries
\* "shouldHangup": True (the non-scam branch omits the key otherwise).
conversation_turn(stored, load, cls, cr, llm) ==
    IF load # "ok"
    THEN LET e == load_error(LoadException(load))
         IN  [status |-> e.status, detail |-> e.detail,
              message |-> Absent, shouldHangup |-> FALSE,
              rec |-> stored,
              calls |-> <<Call("get_call_skeleton", [outcome |-> load])>>,
              current_step |-> None, current_intent |-> None,
              confidence |-> 0]
    ELSE LET ir == intent_result(cls)
             respond(branch) ==
                 [status |-> branch.status, detail |-> branch.detail,
                  message |-> branch.message, shouldHangup |-> branch.shouldHangup,
                  rec |-> branch.rec,
                  calls |-> <<Call("get_call_skeleton", [outcome |-> load]),
                              Call("classify_intent", [outcome |-> cls.kind])>>
                            \o branch.calls,
                  current_step |-> branch.current_step,
                  current_intent |-> ir.intent,
                  confidence |-> ir.confidence]
         IN  respond(IF ir.intent = "scam"
                     THEN scam_branch(stored, ir)
                     ELSE non_scam_branch(stored, ir, cr, llm))

-----------------------------------------------------------------------------
(* State machine *)

\* Caller metadata telephony may have put in the record: (number, start time).
\* callStartAt is any Optional[str]: unset, an ISO 8601 time, any other text.
CallerInfos ==
    {<<None, None>>,
     <<"+61400000000", "2025-01-01T00:00:00Z">>,
     <<"+61400000000", "yesterday">>}

CollectorOps == {"collect_name", "collect_background", "collect_additional_info"}

CollectorCalled(calls) == \E op \in CollectorOps : HasCall(calls, op)

\* The calls the handler awaits: the coroutine gives way there.
AwaitedOps == {"classify_intent", "create_calllog"} \cup CollectorOps

\* Handler coroutines the server runs side by side.
Slots == 1..2

\* The closing templates, for any caller name and intent.
ClosingMessages ==
    {generate_closing_message(n, i) :
        n \in Texts \cup {None}, i \in Intents \cup {None}}

IsClosingMessage(m) == m \in ClosingMessages

\* No CollectionState derived yet.
NoState ==
    [current_step |-> None, collected_name |-> None,
     collected_background |-> None, collected_additional |-> None,
     name_retry_count |-> 0, background_retry_count |-> 0,
     additional_retry_count |-> 0, calllog_created |-> FALSE]

NoTurn ==
    [endpoint |-> "none", sid |-> None, turn |-> 0,
     load |-> None, cls |-> NoClassifier,
     cr |-> "not_called", llm |-> NoLLM,
     pre |-> NewCallSkeleton(None, None),
     post |-> NewCallSkeleton(None, None),
     status |-> 0, detail |-> Absent, message |-> Absent,
     shouldHangup |-> FALSE, calls |-> <<>>,
     current_step |-> None, current_intent |-> None, confidence |-> 0,
     body |-> [message |-> Absent, shouldHangup |-> Absent,
               replyText |-> Absent, detail |-> Absent]]

\* A slot no request occupies.
NoRequest ==
    [sid |-> None, endpoint |-> "none", turn |-> 0,
     callskeleton |-> NewCallSkeleton(None, None),
     cls |-> NoClassifier, cr |-> "not_called", llm |-> NoLLM, pc |-> 0]

Init ==
    /\ \E ci \in CallerInfos :
           store = [sid \in CallSids |-> NewCallSkeleton(ci[1], ci[2])]
    /\ turns = [sid \in CallSids |-> 0]
    /\ calllogs = [sid \in CallSids |-> 0]
    /\ inflight = [slot \in Slots |-> NoRequest]
    /\ last = NoTurn
    /\ closings = [sid \in CallSids |-> 0]
    /\ derived = NoState
    /\ attempts = [sid \in CallSids |-> 0]
    /\ alone = store

\* The JSON body of POST /ai/conversation: an HTTPException gives its detail.
conversation_body(out) ==
    IF out.status = 200
    THEN [message |-> out.message,
          shouldHangup |-> IF out.shouldHangup THEN "True" ELSE Absent,
          replyText |-> Absent, detail |-> Absent]
    ELSE [message |-> Absent, shouldHangup |-> Absent,
          replyText |-> Absent, detail |-> out.detail]

\* Mutant: the reply text is read from a key the conversation result lacks;
\* the KeyError leaves the handler as a 500.
reply_body_wrong_key(out) ==
    IF out.status = 200
    THEN [message |-> Absent, shouldHangup |-> Absent,
          replyText |-> Absent, detail |-> "Internal Server Error"]
    ELSE [message |-> Absent, shouldHangup |-> Absent,
          replyText |-> Absent, detail |-> out.detail]

\* The JSON body of POST /ai/reply: the message of the conversation result.
reply_body(out) ==
    IF out.status = 200
    THEN [message |-> Absent, shouldHangup |-> Absent,
          replyText |-> out.message, detail |-> Absent]
    ELSE [message |-> Absent, shouldHangup |-> Absent,
          replyText |-> Absent, detail |-> out.detail]

\* The consecutive failed extraction attempts of the active step after a turn
\* with the given call trace: a turn that calls no Step Collector is no
\* attempt; a collector call followed by update_user_info_field populated the
\* field, so the next step starts at zero; any other collector call failed.
attempts_after(n, calls) ==
    IF ~CollectorCalled(calls) THEN n
    ELSE IF HasCall(calls, "update_user_info_field") THEN 0
    ELSE n + 1

\* The counters stop counting at MaxTurns, so that they stay finite in a call
\* whose requests keep arriving.
Saturated(n) == IF n > MaxTurns THEN MaxTurns ELSE n

\* The JSON body of the response of either endpoint.
response_body(endpoint, out) ==
    IF endpoint = "reply" THEN reply_body(out) ELSE conversation_body(out)

\* What a turn is remembered by: the request (turn is its number among the
\* requests of its call), the answers of the collaborators, the record it
\* loaded, the record its last write left, the calls it made and its response.
TurnObservation(sid, endpoint, turn, pre, load, cls, cr, llm, out) ==
    [endpoint |-> endpoint, sid |-> sid, turn |-> turn,
     load |-> load, cls |-> cls,
     cr |-> cr, llm |-> llm, pre |-> pre, post |-> out.rec,
     status |-> out.status, detail |-> out.detail,
     message |-> out.message, shouldHangup |-> out.shouldHangup,
     calls |-> out.calls, current_step |-> out.current_step,
     current_intent |-> out.current_intent,
     confidence |-> out.confidence, body |-> response_body(endpoint, out)]

\* The response of a turn leaves the server: what the turn is remembered by.
\* out.rec is the stored record as the turn's last write left it.
Record(sid, endpoint, turn, pre, load, cls, cr, llm, out) ==
    /\ last' = TurnObservation(sid, endpoint, turn, pre, load, cls, cr, llm,
                               out)
    /\ closings' = [closings EXCEPT
                       ![sid] = Saturated(@ + (IF IsClosingMessage(out.message)
                                               THEN 1 ELSE 0))]
    /\ attempts' = [attempts EXCEPT
                       ![sid] = Saturated(attempts_after(@, out.calls))]
    /\ alone' = [alone EXCEPT
                    ![sid] = conversation_turn(@, load, cls, cr, llm).rec]

\* Mutant: every call reads the record of the first call.
get_call_skeleton_shared_key(call_sid) == store["CA1"]

\* redis_service.get_call_skeleton: the record stored under the call's key.
get_call_skeleton(call_sid) == store[call_sid]

\* The effect on the stored record of one call of the handler's trace: the
\* two store writers change the record, any other call leaves it.
apply_call(rec, call) ==
    IF call.op = "update_intent_classification"
    THEN update_intent_classification(rec, call.args.intent)
    ELSE IF call.op = "update_user_info_field"
    THEN update_user_info_field(rec, call.args.field_name,
                                call.args.field_value)
    ELSE rec

RECURSIVE apply_calls(_, _, _, _)
\* The stored record after the calls from..to of a trace, in order.
apply_calls(rec, calls, from, to) ==
    IF from > to THEN rec
    ELSE apply_calls(apply_call(rec, calls[from]), calls, from + 1, to)

\* The position of the first awaited call after position pc of a trace, or
\* one past the end of the trace when the handler awaits nothing more.
next_await(calls, pc) ==
    LET later == {i \in (pc + 1)..Len(calls) : calls[i].op \in AwaitedOps}
    IN  IF later = {} THEN Len(calls) + 1
        ELSE CHOOSE i \in later : \A j \in later : i <= j

\* The handler of request req, with the answers the request has received so
\* far: what it calls and what it responds.  Every decision of the handler is
\* taken on the record it loaded at its start, req.callskeleton.
handler(req) ==
    conversation_turn(req.callskeleton, "ok", req.cls, req.cr, req.llm)

\* The request is being worked on.
Working(slot) == inflight[slot].sid # None

\* Call sid has a request that has not been responded to.
InFlight(sid) == \E slot \in Slots : inflight[slot].sid = sid

\* The lowest free slot.
IsFree(slot) ==
    /\ ~Working(slot)
    /\ \A other \in Slots : other < slot => Working(other)

\* The coroutine of the request in slot runs on from position req.pc of its
\* trace: it makes the calls up to its next await, the store writes among
\* them landing on the record as it is stored now, and either gives way at
\* the await or, with nothing left to await, responds.
run_to_next_await(slot, req) ==
    \E out \in {handler(req)} :
    \E stop \in {next_await(out.calls, req.pc)} :
    \E rec \in {apply_calls(store[req.sid], out.calls, req.pc + 1, stop - 1)} :
        /\ store' = [store EXCEPT ![req.sid] = rec]
        /\ IF stop <= Len(out.calls)
           THEN /\ inflight' = [inflight EXCEPT ![slot] = [req EXCEPT !.pc = stop]]
                /\ calllogs' =
                       [calllogs EXCEPT
                           ![req.sid] =
                               Saturated(@ + (IF out.calls[stop].op = "create_calllog"
                                              THEN 1 ELSE 0))]
                /\ last' = NoTurn
                /\ UNCHANGED <<closings, attempts, alone>>
           ELSE /\ inflight' = [inflight EXCEPT ![slot] = NoRequest]
                /\ Record(req.sid, req.endpoint, req.turn, req.callskeleton, "ok",
                          req.cls, req.cr, req.llm, [out EXCEPT !.rec = rec])
                /\ UNCHANGED calllogs

\* A request for call sid arrives and its handler runs to its first await:
\* step 1 loads the record; a failed load responds with the HTTPException at
\* once, a loaded record is what the rest of the handler works with.
request_arrives(sid, endpoint, loads) ==
    \E slot \in Slots :
    \E load \in loads :
        /\ IsFree(slot)
        /\ turns' = [turns EXCEPT ![sid] = Saturated(@ + 1)]
        /\ UNCHANGED derived
        /\ IF load = "ok"
           THEN run_to_next_await(slot,
                    [sid |-> sid, endpoint |-> endpoint, turn |-> turns'[sid],
                     callskeleton |-> get_call_skeleton(sid),
                     cls |-> NoClassifier, cr |-> "not_called",
                     llm |-> NoLLM, pc |-> 0])
           ELSE /\ Record(sid, endpoint, turns'[sid], store[sid], load,
                          NoClassifier,
                          "not_called", NoLLM,
                          conversation_turn(store[sid], load, NoClassifier,
                                            "not_called", NoLLM))
                /\ UNCHANGED <<store, calllogs, inflight>>

\* The call the request in slot is waiting for.
awaited(slot) == handler(inflight[slot]).calls[inflight[slot].pc].op

\* intent_classifier.classify_intent answers the request in slot (step 3);
\* the handler runs on: the scam branch to its response, the non-scam branch
\* to the calllog POST, to the Step Collector or to the closing response.
classify_intent_returns(slot, outcomes) ==
    /\ Working(slot)
    /\ awaited(slot) = "classify_intent"
    /\ \E cls \in outcomes :
           run_to_next_await(slot, [inflight[slot] EXCEPT !.cls = cls])
    /\ UNCHANGED <<turns, derived>>

\* The POST of create_calllog answers the request in slot (step 6); the
\* handler runs on to the Step Collector or to the closing response.
create_calllog_returns(slot, outcomes) ==
    /\ Working(slot)
    /\ awaited(slot) = "create_calllog"
    /\ \E cr \in outcomes :
           run_to_next_await(slot, [inflight[slot] EXCEPT !.cr = cr])
    /\ UNCHANGED <<turns, derived>>

\* The chat completion of the Step Collector answers the request in slot
\* (step 7); the handler stores the extracted value and responds.
collector_returns(slot, outcomes) ==
    /\ Working(slot)
    /\ awaited(slot) \in CollectorOps
    /\ \E llm \in outcomes :
           run_to_next_await(slot, [inflight[slot] EXCEPT !.llm = llm])
    /\ UNCHANGED <<turns, derived>>

\* POST /ai/conversation for call sid.
ai_conversation(sid) == request_arrives(sid, "conversation", LoadOutcomes)

\* POST /ai/reply for call sid: builds the customer message and awaits
\* ai_conversation; an HTTPException of the inner call propagates.
ai_reply(sid) == request_arrives(sid, "reply", LoadOutcomes)

\* The collaborators answer the requests that wait for them.
collaborator_returns(classifications, calllog_outcomes, extractions) ==
    \E slot \in Slots :
        \/ classify_intent_returns(slot, classifications)
        \/ create_calllog_returns(slot, calllog_outcomes)
        \/ collector_returns(slot, extractions)

\* The turns of the call are sequential (the telephony layer awaits the reply
\* of a turn before it sends the next one).
Next ==
    \/ \E sid \in SingleCall :
           /\ turns[sid] < MaxTurns
           /\ ~InFlight(sid)
           /\ \/ ai_conversation(sid)
              \/ ai_reply(sid)
    \/ collaborator_returns(ClassifierOutcomes, CalllogOutcomes, LLMOutcomes)

Spec == Init /\ [][Next]_vars

-----------------------------------------------------------------------------
(* Overlapping requests of one call *)

\* Requests of the call while its turns may overlap.
MaxTurnsOverlap == 2

\* Nothing in the handler keeps the telephony layer from sending a request
\* of a call while an earlier one of the same call is still being handled.
NextOverlap ==
    \/ \E sid \in SingleCall :
           /\ turns[sid] < MaxTurnsOverlap
           /\ \/ ai_conversation(sid)
              \/ ai_reply(sid)
    \/ collaborator_returns(ClassifierOutcomes, CalllogOutcomes, LLMOutcomes)

SpecOverlap == Init /\ [][NextOverlap]_vars

\* Two requests of one call that overlap both load the record before either
\* has saved the intent, and both POST the calllog.
OverlapPostsTwice == \E sid \in SingleCall : calllogs[sid] = 2

-----------------------------------------------------------------------------
(* Two calls in progress *)

\* Turns per call while two calls are interleaved.
MaxTurnsTwoCalls == 2

\* The answers of the collaborators while two calls are interleaved: a
\* subset of the outcomes a turn can meet.
TwoCallsLoads == {"ok", "absent"}

TwoCallsClassifications ==
    {c \in ClassifierOutcomes : c.kind = "ok" /\ c.intent # "opportunity"}

TwoCallsCalllogs == {"201", "timeout"}

TwoCallsExtractions ==
    {[kind |-> "json", extracted |-> "true", value |-> "Alice",
      response |-> LLMResponseText],
     [kind |-> "json", extracted |-> "false", value |-> None,
      response |-> LLMResponseText],
     [kind |-> "error", extracted |-> Absent, value |-> Absent,
      response |-> Absent]}

\* Any of the two calls sends its next turn, through either endpoint, while
\* the other call may have a request in flight.
NextTwoCalls ==
    \/ \E sid \in CallSids :
           /\ turns[sid] < MaxTurnsTwoCalls
           /\ ~InFlight(sid)
           /\ \/ request_arrives(sid, "conversation", TwoCallsLoads)
              \/ request_arrives(sid, "reply", TwoCallsLoads)
    \/ collaborator_returns(TwoCallsClassifications, TwoCallsCalllogs,
                            TwoCallsExtractions)

SpecTwoCalls == Init /\ [][NextTwoCalls]_vars

-----------------------------------------------------------------------------
(* get_collection_state on its own *)

\* Call records with every combination of absent (None), empty and non-empty
\* name, address and phone, classified or not.
AnyCallSkeletons ==
    [name : JsonValues, phone : JsonValues, address : JsonValues,
     intent : {None}, intentClassified : BOOLEAN,
     callerNumber : {None}, callStartAt : {None}]

InitDerive ==
    /\ \E rec \in AnyCallSkeletons : store = [sid \in CallSids |-> rec]
    /\ turns = [sid \in CallSids |-> 0]
    /\ calllogs = [sid \in CallSids |-> 0]
    /\ inflight = [slot \in Slots |-> NoRequest]
    /\ last = NoTurn
    /\ closings = [sid \in CallSids |-> 0]
    /\ derived = NoState
    /\ attempts = [sid \in CallSids |-> 0]
    /\ alone = store

\* Applications of get_collection_state to one record.
MaxDerivations == 2

\* get_collection_state applied to the record of call sid, which is the
\* object the function is given; turns counts the applications.  The record
\* is left as the statements of the function leave their argument.
DeriveState(sid) ==
    /\ turns[sid] < MaxDerivations
    /\ \E frame \in {get_collection_state_frame(store[sid])} :
           /\ derived' = frame.state
           /\ store' = [store EXCEPT ![sid] = frame.callskeleton]
    /\ turns' = [turns EXCEPT ![sid] = @ + 1]
    /\ UNCHANGED <<calllogs, inflight, last, closings, attempts, alone>>

NextDerive == \E sid \in SingleCall : DeriveState(sid)

SpecDerive == InitDerive /\ [][NextDerive]_vars

-----------------------------------------------------------------------------
(* Vocabulary of the properties *)

\* The most recent turn loaded its call record.
Loaded == last.endpoint # "none" /\ last.load = "ok"

\* The most recent turn loaded its record and resolved a non-scam intent.
NonScamTurn == Loaded /\ last.current_intent # "scam"

CollectedFields == {"name", "address", "phone"}

\* All three fields (name, background in address, additional info in phone)
\* are non-empty in rec.
AllCollected(rec) == \A f \in CollectedFields : Truthy(rec[f])

\* The first of name, background, additional info that is empty in rec.
FirstEmptyStep(rec) ==
    IF ~Truthy(rec.name) THEN "name"
    ELSE IF ~Truthy(rec.address) THEN "background"
    ELSE IF ~Truthy(rec.phone) THEN "additional_info"
    ELSE "completed"

StepRank(step) ==
    CASE step = "name" -> 0
      [] step = "background" -> 1
      [] step = "additional_info" -> 2
      [] step = "completed" -> 3

\* The extraction capability flagged the field as extracted and supplied a
\* non-empty value.
ExtractionSucceeded(llm) ==
    llm.kind = "json" /\ llm.extracted = "true" /\ Truthy(llm.value)

CalllogFailures == {"non201", "timeout", "exception"}

-----------------------------------------------------------------------------
(* A call whose turns keep arriving *)

\* The answers of the collaborators in a call whose turns keep arriving: a
\* subset of the outcomes a turn can meet.
ArrivingLoads == {"ok", "absent"}

ArrivingClassifications ==
    {c \in ClassifierOutcomes : c.kind = "ok" /\ c.intent \in {"scam", "other"}}

ArrivingCalllogs == {"201", "timeout"}

SuccessfulExtractions ==
    {[kind |-> "json", extracted |-> "true", value |-> "Alice",
      response |-> LLMResponseText]}

FailedExtractions ==
    {[kind |-> "json", extracted |-> "false", value |-> None,
      response |-> LLMResponseText],
     [kind |-> "error", extracted |-> Absent, value |-> Absent,
      response |-> Absent]}

\* POST /ai/conversation for call sid, as often as the telephony layer sends
\* a turn: once the previous turn was responded to.
conversation_arrives(sid) ==
    /\ ~InFlight(sid)
    /\ request_arrives(sid, "conversation", ArrivingLoads)

\* A turn arrives whose record loads.
record_loads(sid) ==
    /\ ~InFlight(sid)
    /\ request_arrives(sid, "conversation", {"ok"})

\* The classifier or the calllog backend answers the request that waits.
service_answers ==
    \E slot \in Slots :
        \/ classify_intent_returns(slot, ArrivingClassifications)
        \/ create_calllog_returns(slot, ArrivingCalllogs)

\* The extraction answers the request that waits for it.
extraction_answers ==
    \E slot \in Slots :
        collector_returns(slot, SuccessfulExtractions \cup FailedExtractions)

\* The extraction flags the field and supplies a non-empty value.
extraction_succeeds ==
    \E slot \in Slots : collector_returns(slot, SuccessfulExtractions)

NextLive ==
    \/ \E sid \in SingleCall : conversation_arrives(sid)
    \/ service_answers
    \/ extraction_answers

\* Turns keep arriving and their records load, every awaited collaborator
\* answers (each await of the handler is bounded by a timeout), and the
\* extraction succeeds again and again as long as it is asked again and again.
SpecLive ==
    /\ Init
    /\ [][NextLive]_vars
    /\ \A sid \in SingleCall : WF_vars(record_loads(sid))
    /\ WF_vars(service_answers)
    /\ WF_vars(extraction_answers)
    /\ SF_vars(extraction_succeeds)

-----------------------------------------------------------------------------
(* C1 *)

\* C1: every turn whose record loads and whose resolved intent is scam returns
\* shouldHangup = true and the fixed apology text, whatever the step and
\* whatever earlier turns collected or classified.
C1_ScamHangsUp ==
    (Loaded /\ last.current_intent = "scam")
        => /\ last.status = 200
           /\ last.shouldHangup
           /\ last.message = ScamMessage

\* A scam turn of a call that an earlier turn classified other and that has
\* already collected the name.
C1_Witness ==
    /\ Loaded /\ last.current_intent = "scam"
    /\ last.pre.intent = "other"
    /\ Truthy(last.pre.name)
    /\ last.shouldHangup

-----------------------------------------------------------------------------
(* C2 *)

\* C2: a turn returns shouldHangup = true only if its resolved intent is scam
\* or all three fields are non-empty in the record after the turn's writes;
\* no failure of classifier, extraction or calllog creation hangs up by itself.
C2_HangupOnlyScamOrComplete ==
    (last.endpoint # "none" /\ last.shouldHangup)
        => \/ last.current_intent = "scam"
           \/ AllCollected(last.post)

\* A non-scam turn in step additional_info that hangs up, the classifier
\* having failed in that turn.
C2_Witness ==
    /\ NonScamTurn /\ last.shouldHangup
    /\ last.cls.kind = "raise"
    /\ FirstEmptyStep(last.pre) = "additional_info"
    /\ AllCollected(last.post)

-----------------------------------------------------------------------------
(* C3 *)

\* C3 as stated: every turn that starts with all three fields collected
\* invokes no Step Collector, replies with the closing message and hangs up.
C3_Original ==
    (Loaded /\ AllCollected(last.pre))
        => /\ ~CollectorCalled(last.calls)
           /\ IsClosingMessage(last.message)
           /\ last.shouldHangup

\* C3 amended: every turn that starts with all three fields collected invokes
\* no Step Collector and hangs up; its reply is the closing message when the
\* resolved intent is not scam and the scam apology when it is scam.
C3_CompletedHangsUp ==
    (Loaded /\ AllCollected(last.pre))
        => /\ ~CollectorCalled(last.calls)
           /\ last.shouldHangup
           /\ last.status = 200
           /\ IF last.current_intent = "scam"
              THEN last.message = ScamMessage
              ELSE last.message = generate_closing_message(last.pre.name,
                                                           last.current_intent)

\* A non-scam turn entered with all three fields collected.
C3_Witness ==
    /\ NonScamTurn /\ AllCollected(last.pre)
    /\ IsClosingMessage(last.message)
    /\ last.shouldHangup

-----------------------------------------------------------------------------
(* C4 *)

\* C4: a non-scam turn in step additional_info whose extraction succeeds with
\* a non-empty value persists the additional info, replies with the closing
\* message instead of the collector's response, and hangs up in that turn.
C4_ClosesInSameTurn ==
    (NonScamTurn /\ FirstEmptyStep(last.pre) = "additional_info"
     /\ ExtractionSucceeded(last.llm))
        => /\ last.post.phone = last.llm.value
           /\ last.message = generate_closing_message(last.pre.name,
                                                      last.current_intent)
           /\ last.message # JsonGet(last.llm.response, AdditionalFallback)
           /\ last.shouldHangup

\* Such a turn: additional info "Bob" extracted and stored, call closed.
C4_Witness ==
    /\ NonScamTurn /\ FirstEmptyStep(last.pre) = "additional_info"
    /\ ExtractionSucceeded(last.llm) /\ last.llm.value = "Bob"
    /\ last.post.phone = "Bob"
    /\ last.shouldHangup

-----------------------------------------------------------------------------
(* C5 *)

\* The classifier answer "other with confidence 0".
OtherZero ==
    [kind |-> "ok", intent |-> "other", confidence |-> 0, text |-> ""]

\* The operations of a trace, in order.
CallOps(calls) == [i \in 1..Len(calls) |-> calls[i].op]

\* C5 as stated: when the classifier raises or times out, the turn returns no
\* error and runs as it would had the classifier answered other with
\* confidence 0: the non-scam branch, with the collector of the current step
\* or the closing message, and a valid reply.
C5_Original ==
    (Loaded /\ last.cls.kind \in {"raise", "timeout", "malformed"})
        => LET asif == conversation_turn(last.pre, "ok", OtherZero,
                                         last.cr, last.llm)
           IN  /\ last.status = 200
               /\ last.current_intent = "other"
               /\ last.confidence = 0
               /\ last.message # Absent
               /\ CollectorCalled(last.calls)
                      \/ HasCall(last.calls, "generate_closing_message")
               /\ last.message = asif.message
               /\ last.shouldHangup = asif.shouldHangup
               /\ last.post = asif.rec
               /\ CallOps(last.calls) = CallOps(asif.calls)

-----------------------------------------------------------------------------
(* C6 *)

\* C6: over the turns of a call create_calllog is attempted at most once, and
\* never on a turn whose loaded record has intentClassified set.
C6_CalllogAtMostOnce ==
    /\ \A sid \in CallSids : calllogs[sid] <= 1
    /\ (Loaded /\ last.pre.intentClassified)
           => ~HasCall(last.calls, "create_calllog")

\* A non-scam turn that found the flag set and attempted no creation, after an
\* earlier turn of the call had attempted one.
C6_Witness ==
    /\ NonScamTurn /\ last.pre.intentClassified
    /\ last.pre.intent # "scam"
    /\ calllogs[last.sid] = 1
    /\ ~HasCall(last.calls, "create_calllog")

-----------------------------------------------------------------------------
(* C7 *)

\* C7 as stated: when create_calllog fails on a non-scam turn, the turn
\* leaves the flag false, so that the next non-scam turn of the call, which
\* loads the record this turn leaves, attempts the creation again.
C7_Original ==
    (NonScamTurn /\ last.cr \in CalllogFailures)
        => /\ ~last.post.intentClassified
           /\ needs_calllog(get_collection_state(last.post))

-----------------------------------------------------------------------------
(* C8 *)

\* C8: when create_calllog fails on a non-scam turn, the turn returns no error
\* and the step dispatch gives the reply, hang-up flag and field writes it
\* gives after a successful creation.
C8_CalllogFailureIsNotFatal ==
    (NonScamTurn /\ last.cr \in CalllogFailures)
        => LET created == conversation_turn(last.pre, "ok", last.cls,
                                            "201", last.llm)
           IN  /\ last.status = 200
               /\ last.message # Absent
               /\ CollectorCalled(last.calls)
               /\ last.message = created.message
               /\ last.shouldHangup = created.shouldHangup
               /\ last.post = created.rec

\* A turn whose calllog POST timed out and whose name collector stored "Alice".
C8_Witness ==
    /\ NonScamTurn /\ last.cr = "timeout"
    /\ last.status = 200
    /\ HasCall(last.calls, "collect_name")
    /\ last.post.name = "Alice"

-----------------------------------------------------------------------------
(* C9 *)

\* C9: a collected field (name, address, phone) is written only while it is
\* empty: no turn overwrites or clears a non-empty field, and every
\* update_user_info_field of a turn names a field that was empty before it.
C9_FieldsWrittenOnce ==
    [][/\ \A sid \in CallSids : \A f \in CollectedFields :
              Truthy(store[sid][f]) => store'[sid][f] = store[sid][f]
       /\ last'.endpoint # "none"
              => \A i \in 1..Len(last'.calls) :
                     last'.calls[i].op = "update_user_info_field"
                         => /\ ~Truthy(last'.pre[last'.calls[i].args.field_name])
                            /\ ~Truthy(store[last'.sid]
                                            [last'.calls[i].args.field_name])
      ]_vars

\* A turn that extracted "Bob" while the name "Alice" was stored: the name is
\* still "Alice" and "Bob" went to the next empty field.
C9_Witness ==
    /\ NonScamTurn /\ last.pre.name = "Alice"
    /\ ExtractionSucceeded(last.llm) /\ last.llm.value = "Bob"
    /\ last.post.name = "Alice"
    /\ last.post.address = "Bob"

-----------------------------------------------------------------------------
(* C10 *)

\* C10: across consecutive turns the derived current step never moves back in
\* the order name < background < additional_info < completed.
C10_StepMonotonic ==
    [][\A sid \in CallSids :
           StepRank(get_collection_state(store[sid]).current_step)
               <= StepRank(get_collection_state(store'[sid]).current_step)
      ]_vars

\* A scam turn in step background that follows non-scam turns, the step
\* staying where it was.
C10_Witness ==
    /\ Loaded /\ last.current_intent = "scam"
    /\ get_collection_state(last.pre).current_step = "background"
    /\ get_collection_state(last.post).current_step = "background"
    /\ last.pre.intent = "opportunity"

-----------------------------------------------------------------------------
(* C11 *)

\* C11 as stated: the intent is written at most once per call; once an intent
\* is stored, no later turn writes it again, a later scam turn included.
C11_Original ==
    (Loaded /\ last.pre.intent # None)
        => ~HasCall(last.calls, "update_intent_classification")

\* C11 amended: a turn writes the intent exactly when it is resolved as scam
\* or the loaded record has no classification flag, once, with the resolved
\* intent; so a non-scam intent is written at most once per call and never
\* over a stored intent, while every scam turn writes scam, also over a stored
\* non-scam intent.
C11_IntentWrites ==
    Loaded
        => /\ CountCalls(last.calls, "update_intent_classification") <= 1
           /\ HasCall(last.calls, "update_intent_classification")
                  <=> (last.current_intent = "scam"
                       \/ ~last.pre.intentClassified)
           /\ last.post.intent =
                  IF HasCall(last.calls, "update_intent_classification")
                  THEN last.current_intent ELSE last.pre.intent

\* A turn classified opportunity on a record that holds the intent other:
\* the intent is not written and stays other.
C11_Witness ==
    /\ NonScamTurn /\ last.current_intent = "opportunity"
    /\ last.pre.intent = "other"
    /\ last.post.intent = "other"
    /\ ~HasCall(last.calls, "update_intent_classification")

-----------------------------------------------------------------------------
(* C12 *)

\* C12 as stated: at most one turn of a call replies with the closing
\* message, and every turn that does also returns shouldHangup = true.
C12_Original ==
    /\ \A sid \in CallSids : closings[sid] <= 1
    /\ (last.endpoint # "none" /\ IsClosingMessage(last.message))
           => last.shouldHangup

\* C12 amended: every turn that replies with the closing message also returns
\* shouldHangup = true, and at most one turn of a call replies with it from a
\* record that is not yet complete; a non-scam turn that arrives after the
\* record is complete replies with the closing message again.
C12_ClosingWithHangup ==
    (last.endpoint # "none" /\ IsClosingMessage(last.message))
        => /\ last.shouldHangup
           /\ last.status = 200
           /\ AllCollected(last.post)
           /\ ~AllCollected(last.pre) => closings[last.sid] = 1

\* The second closing message of a call, from a turn entered with a complete
\* record.
C12_Witness ==
    /\ last.endpoint # "none" /\ IsClosingMessage(last.message)
    /\ closings[last.sid] = 2
    /\ AllCollected(last.pre)
    /\ last.shouldHangup

-----------------------------------------------------------------------------
(* C13 *)

\* C13: for every combination of empty and non-empty name, background and
\* additional info, get_collection_state returns as current step the first of
\* the three, in that order, that is empty, and completed when none is.
C13_FirstEmptyField ==
    derived # NoState
        => \A sid \in SingleCall :
               derived.current_step = FirstEmptyStep(store[sid])

\* Name and background set, additional info the empty string: the step is
\* additional_info.
C13_Witness ==
    /\ derived # NoState
    /\ \E sid \in SingleCall :
           /\ Truthy(store[sid].name) /\ Truthy(store[sid].address)
           /\ store[sid].phone = ""
    /\ derived.current_step = "additional_info"

-----------------------------------------------------------------------------
(* C14 *)

\* C14 as stated: an absent record gives the not-found error, a record that
\* is present but fails validation gives the bad-input error and never the
\* not-found error, and any other load failure gives the internal error.
C14_Original ==
    last.endpoint # "none"
        => /\ last.load = "absent"
                  => /\ last.status = 422
                     /\ last.detail = "CallSkeleton not found"
           /\ last.load = "malformed"
                  => /\ last.status = 400
                     /\ last.detail = "Invalid CallSkeleton data format: "
                                          \o LoadException(last.load).text
           /\ last.load = "store_error"
                  => /\ last.status = 500
                     /\ last.detail = "Internal server error: "
                                          \o LoadException(last.load).text

-----------------------------------------------------------------------------
(* C15 *)

\* What the Step Collector called in the most recent turn returned: its
\* step_complete and its extracted value.
LastCollectorResult ==
    IF HasCall(last.calls, "collect_name")
    THEN LET r == collect_name(last.llm, 0)
         IN  [step_complete |-> r.step_complete, value |-> r.name]
    ELSE IF HasCall(last.calls, "collect_background")
    THEN LET r == collect_background(last.llm, 0)
         IN  [step_complete |-> r.step_complete, value |-> r.background]
    ELSE LET r == collect_additional_info(last.llm, 0)
         IN  [step_complete |-> r.step_complete, value |-> r.additional_info]

\* The capability flagged the field as extracted and supplied a non-null value.
FlaggedAndNonNull(llm) ==
    llm.kind = "json" /\ llm.extracted = "true" /\ llm.value \notin {None, Absent}

\* C15 as stated: for each Step Collector and every extraction result,
\* step_complete is true if and only if the capability flags the field as
\* extracted and supplies a non-null value; the orchestrator persists the
\* value only in that case.
C15_Original ==
    (Loaded /\ CollectorCalled(last.calls))
        => /\ LastCollectorResult.step_complete <=> FlaggedAndNonNull(last.llm)
           /\ HasCall(last.calls, "update_user_info_field")
                  => FlaggedAndNonNull(last.llm)

-----------------------------------------------------------------------------
(* C16 *)

\* The extraction capability failed, or returned content json.loads rejects.
ExtractionFailed(llm) == llm.kind \in {"notjson", "error"}

\* The fixed question of the except branch of the collector of a step.
StepFallback(step) ==
    CASE step = "name" -> NameFallback
      [] step = "background" -> BackgroundFallback
      [] step = "additional_info" -> AdditionalFallback

\* C16: when the extraction capability fails or returns unparsable output,
\* the Step Collector returns the fixed fallback question of its step with
\* step_complete false and a null value, nothing is raised to the
\* orchestrator (the turn answers 200), the collected fields are unchanged
\* and the turn returns no hang-up.
C16_ExtractionFailureFallsBack ==
    (Loaded /\ CollectorCalled(last.calls) /\ ExtractionFailed(last.llm))
        => /\ last.status = 200
           /\ last.message = StepFallback(last.current_step)
           /\ ~LastCollectorResult.step_complete
           /\ LastCollectorResult.value = None
           /\ ~HasCall(last.calls, "update_user_info_field")
           /\ \A f \in CollectedFields : last.post[f] = last.pre[f]
           /\ ~last.shouldHangup
           /\ last.body.shouldHangup = Absent

\* A background-step turn in which the extraction capability failed.
C16_Witness ==
    /\ Loaded
    /\ HasCall(last.calls, "collect_background")
    /\ last.llm.kind = "error"
    /\ last.message = BackgroundFallback
    /\ last.post.address = None

-----------------------------------------------------------------------------
(* C17 *)

CollectingSteps == {"name", "background", "additional_info"}

\* The Step Collector the dispatch pairs with a step, the field its value is
\* saved under, and the step that follows.
CollectorOf(step) ==
    CASE step = "name" -> "collect_name"
      [] step = "background" -> "collect_background"
      [] step = "additional_info" -> "collect_additional_info"

FieldOf(step) ==
    CASE step = "name" -> "name"
      [] step = "background" -> "address"
      [] step = "additional_info" -> "phone"

SuccessorStep(step) ==
    CASE step = "name" -> "background"
      [] step = "background" -> "additional_info"
      [] step = "additional_info" -> "completed"

\* The response text the Step Collector of the most recent turn returned.
LastCollectorResponse ==
    IF HasCall(last.calls, "collect_name")
    THEN collect_name(last.llm, 0).response
    ELSE IF HasCall(last.calls, "collect_background")
    THEN collect_background(last.llm, 0).response
    ELSE collect_additional_info(last.llm, 0).response

\* C17 as stated: on every non-scam turn whose derived step is name,
\* background or additional_info, exactly one Step Collector is invoked, the
\* one of the derived step; when it reports success with a non-empty value
\* the field of the step is persisted and the step derived from the stored
\* record is the successor; in steps name and background, and in
\* additional_info without success, the reply is the collector's response
\* text.
C17_Original ==
    (NonScamTurn /\ last.current_step \in CollectingSteps)
        => /\ last.status = 200
           /\ last.current_step = FirstEmptyStep(last.pre)
           /\ \A op \in CollectorOps :
                  CountCalls(last.calls, op)
                      = (IF op = CollectorOf(last.current_step) THEN 1 ELSE 0)
           /\ ExtractionSucceeded(last.llm)
                  => /\ last.post[FieldOf(last.current_step)]
                            = last.llm.value
                     /\ get_collection_state(last.post).current_step
                            = SuccessorStep(last.current_step)
           /\ (last.current_step \in {"name", "background"}
                   \/ ~ExtractionSucceeded(last.llm))
                  => last.message = LastCollectorResponse

-----------------------------------------------------------------------------
(* C18 *)

\* What POST /ai/conversation does on the inputs of the most recent turn.
SameTurnAsConversation ==
    conversation_turn(last.pre, last.load, last.cls, last.cr, last.llm)

\* C18: a turn through ai_reply is exactly one full turn: it makes the store
\* writes and the collaborator calls ai_conversation makes on the same inputs,
\* and its replyText is the message ai_conversation would return, the scam
\* apology and the closing message included; an error of the inner turn is
\* passed on.
C18_ReplyIsOneConversationTurn ==
    last.endpoint = "reply"
        => /\ last.calls = SameTurnAsConversation.calls
           /\ CountCalls(last.calls, "get_call_skeleton") = 1
           /\ last.post = SameTurnAsConversation.rec
           /\ last.status = SameTurnAsConversation.status
           /\ last.body.replyText
                  = conversation_body(SameTurnAsConversation).message
           /\ last.body.detail
                  = conversation_body(SameTurnAsConversation).detail
           /\ last.status = 200
                  => /\ last.body.replyText # Absent
                     /\ last.current_intent = "scam"
                            => last.body.replyText = ScamMessage

\* A turn through ai_reply that collected the last field and answered with
\* the closing message.
C18_Witness ==
    /\ last.endpoint = "reply"
    /\ HasCall(last.calls, "update_user_info_field")
    /\ HasCall(last.calls, "generate_closing_message")
    /\ IsClosingMessage(last.body.replyText)
    /\ AllCollected(last.post)

-----------------------------------------------------------------------------
(* C19 *)

\* The positions of the calls of op in a trace.
PositionsOf(calls, op) == {i \in 1..Len(calls) : calls[i].op = op}

\* Every call of op1 precedes every call of op2.
Precedes(calls, op1, op2) ==
    \A i \in PositionsOf(calls, op1) :
        \A j \in PositionsOf(calls, op2) : i < j

\* The arguments of the create_calllog call of the most recent turn.
LastCalllogArgs ==
    last.calls[CHOOSE i \in PositionsOf(last.calls, "create_calllog") : TRUE].args

\* C19: on a non-scam turn whose record has the calllog flag false, the
\* intent is saved before create_calllog is called, create_calllog is called
\* before any Step Collector, and create_calllog receives the caller name
\* "Unknown Caller" when no name is collected and the caller number
\* "Unknown" when the record has none (the record's number otherwise).  The
\* one turn of this kind that does not reach create_calllog is the one whose
\* start time does not parse: it ends after the intent is saved.
C19_IntentThenCalllogThenCollector ==
    (NonScamTurn /\ ~last.pre.intentClassified)
        => /\ CountCalls(last.calls, "update_intent_classification") = 1
           /\ CountCalls(last.calls, "create_calllog")
                  = (IF parse_start_at(last.pre.callStartAt).raised
                     THEN 0 ELSE 1)
           /\ Precedes(last.calls, "update_intent_classification",
                       "create_calllog")
           /\ \A op \in CollectorOps :
                  /\ Precedes(last.calls, "create_calllog", op)
                  /\ HasCall(last.calls, op)
                         => HasCall(last.calls, "create_calllog")
           /\ HasCall(last.calls, "create_calllog")
                  => /\ ~Truthy(last.pre.name)
                            => LastCalllogArgs.caller_name = "Unknown Caller"
                     /\ LastCalllogArgs.caller_number
                            = (IF Truthy(last.pre.callerNumber)
                               THEN last.pre.callerNumber ELSE "Unknown")
                     /\ LastCalllogArgs.intent = last.current_intent

\* A first non-scam turn on a record without caller number: intent saved,
\* calllog created with both defaults, then the name collector called.
C19_Witness ==
    /\ NonScamTurn
    /\ ~last.pre.intentClassified
    /\ last.pre.callerNumber = None
    /\ HasCall(last.calls, "collect_name")
    /\ LastCalllogArgs.caller_name = "Unknown Caller"
    /\ LastCalllogArgs.caller_number = "Unknown"

-----------------------------------------------------------------------------
(* C20 *)

\* The operations that write the store, create the permanent record, collect
\* a field or build the closing message.
EffectOps ==
    {"update_intent_classification", "create_calllog",
     "update_user_info_field", "generate_closing_message"} \cup CollectorOps

\* The classifier answered scam in the most recent turn.
ClassifiedScam == last.cls.kind = "ok" /\ last.cls.intent = "scam"

\* C20: every turn whose record loads calls the intent classifier exactly
\* once, before any store write, calllog creation or collector call, whatever
\* intent the record already holds; so a scam classification on any turn,
\* also after a turn classified other or opportunity, ends the call on that
\* turn.
C20_ClassifiesEveryTurn ==
    Loaded
        => /\ CountCalls(last.calls, "classify_intent") = 1
           /\ \A op \in EffectOps :
                  Precedes(last.calls, "classify_intent", op)
           /\ Precedes(last.calls, "get_call_skeleton", "classify_intent")
           /\ ClassifiedScam
                  => /\ last.status = 200
                     /\ last.shouldHangup
                     /\ last.message = ScamMessage
                     /\ ~CollectorCalled(last.calls)

\* A turn classified scam on a record an earlier turn classified as
\* opportunity, with a name already collected: the call ends on this turn.
C20_Witness ==
    /\ Loaded
    /\ last.pre.intentClassified
    /\ last.pre.intent = "opportunity"
    /\ Truthy(last.pre.name)
    /\ ClassifiedScam
    /\ last.shouldHangup
    /\ last.body.message = ScamMessage \/ last.body.replyText = ScamMessage

-----------------------------------------------------------------------------
(* C21 *)

\* An earlier turn of the call was classified scam and the classification
\* saved: the scam branch writes intent "scam", and no later turn overwrites
\* it, since the non-scam branch saves the intent only while the record holds
\* no classification.
ScamRecorded(rec) == rec.intentClassified /\ rec.intent = "scam"

\* C21 as stated: once a turn of a call has been classified scam and the
\* classification recorded, no later turn of the call is routed to a Step
\* Collector, persists a collected field or creates the calllog.
C21_Original ==
    (Loaded /\ ScamRecorded(last.pre))
        => /\ ~CollectorCalled(last.calls)
           /\ ~HasCall(last.calls, "update_user_info_field")
           /\ ~HasCall(last.calls, "create_calllog")

-----------------------------------------------------------------------------
(* C22 *)

\* The retry_count the Step Collector of the most recent turn was called with.
LastRetryCount ==
    last.calls[CHOOSE i \in 1..Len(last.calls) :
                   last.calls[i].op \in CollectorOps].args.retry_count

\* C22 as stated: on every turn, the retry count handed to the collector of
\* the active step is the number of consecutive failed extraction attempts
\* made for that step on the preceding turns of the call, zero on the first
\* attempt after a field was populated.
C22_Original ==
    [][(Loaded' /\ CollectorCalled(last'.calls))
           => LastRetryCount' = attempts[last'.sid]]_vars

-----------------------------------------------------------------------------
(* C23 *)

\* What the turn just made gives when its call runs alone: the handler applied
\* to the record the call's own earlier turns produce, on the same answers.
TurnRunAlone ==
    conversation_turn(alone[last'.sid], last'.load, last'.cls, last'.cr,
                      last'.llm)

\* C23: turns of different calls are independent.  Every step of a turn of
\* call A leaves the record and the counters of the other call as they are,
\* and, in any interleaving of the turns of two calls, the reply of a turn,
\* its hang-up decision, its collaborator calls and the record it leaves for
\* A are those of A's turns run alone in the same order.
C23_CallsIndependent ==
    [][/\ \E sid \in CallSids : \A other \in CallSids \ {sid} :
              /\ store'[other] = store[other]
              /\ turns'[other] = turns[other]
              /\ calllogs'[other] = calllogs[other]
       /\ last'.endpoint # "none"
              => /\ \A other \in CallSids \ {last'.sid} :
                        store'[other] = store[other]
                 /\ store'[last'.sid] = TurnRunAlone.rec
                 /\ store'[last'.sid] = alone'[last'.sid]
                 /\ last'.pre = alone[last'.sid]
                 /\ last'.status = TurnRunAlone.status
                 /\ last'.message = TurnRunAlone.message
                 /\ last'.shouldHangup = TurnRunAlone.shouldHangup
                 /\ last'.calls = TurnRunAlone.calls]_vars

\* Two calls interleaved, two turns each, that went different ways: one
\* collected name and background, the other was ended as scam.
C23_Witness ==
    /\ turns["CA1"] = MaxTurnsTwoCalls
    /\ turns["CA2"] = MaxTurnsTwoCalls
    /\ Truthy(store["CA1"].address)
    /\ store["CA2"].intent = "scam"
    /\ ~Truthy(store["CA2"].name)
    /\ last.sid = "CA2"
    /\ store = alone

-----------------------------------------------------------------------------
(* C24 *)

\* The arguments of the generate_closing_message call of the most recent turn.
LastClosingArgs ==
    last.calls[CHOOSE i \in PositionsOf(last.calls, "generate_closing_message") :
                   TRUE].args

\* The three closing texts as the caller hears them when addressed by name.
OpportunityClosing(name) ==
    "Thank you so much for reaching out, " \o name \o ". "
    \o "I've recorded all your information and our team will contact you shortly to discuss this opportunity further. "
    \o "We appreciate your interest. Have a great day!"

OtherClosing(name) ==
    "Thank you for calling, " \o name \o ". "
    \o "I've recorded your inquiry and our team will review it carefully. "
    \o "Someone from our office will get back to you as soon as possible. "
    \o "Have a good day!"

UnclassifiedClosing(name) ==
    "Thank you for your call, " \o name \o ". "
    \o "I've noted your information and our team will follow up with you shortly. "
    \o "Have a great day!"

\* C24: whenever the closing message is emitted (on entry in step completed,
\* or on a successful additional-info extraction), the caller name passed to
\* the generator is the non-empty stored name, so the message addresses the
\* caller by name, and the template is the one of the intent resolved in the
\* current turn: opportunity for opportunity, other for other, the
\* unclassified one otherwise.
C24_ClosingByNameAndIntent ==
    (Loaded /\ HasCall(last.calls, "generate_closing_message"))
        => /\ CountCalls(last.calls, "generate_closing_message") = 1
           /\ last.current_step \in {"completed", "additional_info"}
           /\ Truthy(last.pre.name)
           /\ LastClosingArgs.caller_name = last.pre.name
           /\ LastClosingArgs.intent_type = last.current_intent
           /\ last.message
                  = (IF last.current_intent = "opportunity"
                     THEN OpportunityClosing(last.pre.name)
                     ELSE IF last.current_intent = "other"
                     THEN OtherClosing(last.pre.name)
                     ELSE UnclassifiedClosing(last.pre.name))

\* The last field is collected on a turn classified opportunity, on a record
\* whose stored intent is other: the caller hears the opportunity closing,
\* by name.
C24_Witness ==
    /\ Loaded
    /\ last.current_step = "additional_info"
    /\ HasCall(last.calls, "generate_closing_message")
    /\ last.pre.intent = "other"
    /\ last.current_intent = "opportunity"
    /\ last.message = OpportunityClosing(last.pre.name)

-----------------------------------------------------------------------------
(* C25 *)

-----------------------------------------------------------------------------
(* C26 *)

\* The fields of the record other than the saved classification.
UnclassifiedFields == {"name", "phone", "address", "callerNumber", "callStartAt"}

\* C26: a turn resolved as scam changes nothing in the call record except the
\* saved intent classification: it calls no Step Collector, does not attempt
\* create_calllog and leaves name, background and additional info as they
\* were; so create_calllog is only ever called with a non-scam intent.
C26_ScamTurnWritesOnlyIntent ==
    /\ (Loaded /\ last.current_intent = "scam")
           => /\ ~CollectorCalled(last.calls)
              /\ ~HasCall(last.calls, "create_calllog")
              /\ ~HasCall(last.calls, "update_user_info_field")
              /\ \A f \in UnclassifiedFields :
                     last.post[f] = last.pre[f]
              /\ last.post.intent = "scam"
    /\ (Loaded /\ HasCall(last.calls, "create_calllog"))
           => /\ LastCalllogArgs.intent \in {"opportunity", "other"}
              /\ last.current_intent # "scam"

\* A scam turn on a record that holds a name and a non-scam intent: only the
\* intent changes.
C26_Witness ==
    /\ Loaded
    /\ last.current_intent = "scam"
    /\ last.pre.intent = "other"
    /\ Truthy(last.pre.name)
    /\ last.post.name = last.pre.name
    /\ last.post.intent = "scam"
    /\ calllogs[last.sid] >= 1

-----------------------------------------------------------------------------
(* C27 *)

\* The number of collected fields that are non-empty in rec.
CollectedCount(rec) == Cardinality({f \in CollectedFields : Truthy(rec[f])})

\* C27: each turn persists at most one collected field, so the derived step
\* advances by at most one position per turn; starting from a record with no
\* collected field, a turn that is not classified scam cannot return
\* shouldHangup = true before the third turn of the call.
C27_OneFieldPerTurn ==
    last.endpoint # "none"
        => /\ CountCalls(last.calls, "update_user_info_field") <= 1
           /\ CollectedCount(last.post) <= CollectedCount(last.pre) + 1
           /\ StepRank(get_collection_state(last.post).current_step)
                  <= StepRank(get_collection_state(last.pre).current_step) + 1
           /\ CollectedCount(last.post) <= turns[last.sid]
           /\ (last.shouldHangup /\ last.current_intent # "scam")
                  => turns[last.sid] >= 3

\* The third turn of a call never classified scam: it collects the last field
\* and hangs up.
C27_Witness ==
    /\ NonScamTurn
    /\ turns[last.sid] = 3
    /\ last.shouldHangup
    /\ HasCall(last.calls, "update_user_info_field")
    /\ CollectedCount(last.pre) = 2
    /\ CollectedCount(last.post) = 3
    /\ last.post.intent # "scam"

-----------------------------------------------------------------------------
(* C28 *)

\* C28: in a call whose turns keep arriving, if the extraction of each step
\* eventually succeeds with a non-empty value, some turn eventually returns
\* shouldHangup = true; the retry ceiling plays no part in it.
C28_EventuallyHangsUp == <>(Loaded /\ last.shouldHangup)

\* The call hangs up on completing the third field after more failed or
\* unloaded turns than the retry ceiling allows retries.
C28_Witness ==
    /\ NonScamTurn
    /\ last.shouldHangup
    /\ HasCall(last.calls, "update_user_info_field")
    /\ turns[last.sid] > max_retries_per_step
    /\ LastRetryCount = 0

-----------------------------------------------------------------------------
(* C29 *)

\* The most recent turn failed to load its call record.
LoadFailed == last.endpoint # "none" /\ last.load # "ok"

\* C29: when loading the call record fails (record absent, malformed, or a
\* store error), the turn ends with an error and has no other effect: the
\* intent classifier, the Step Collectors and create_calllog are not called
\* and nothing is written to the store.
C29_LoadFailureHasNoEffect ==
    LoadFailed
        => /\ last.status \in {400, 422, 500}
           /\ last.body.detail # Absent
           /\ last.body.message = Absent
           /\ last.body.replyText = Absent
           /\ ~last.shouldHangup
           /\ last.calls = <<Call("get_call_skeleton", [outcome |-> last.load])>>
           /\ ~HasCall(last.calls, "classify_intent")
           /\ ~CollectorCalled(last.calls)
           /\ ~HasCall(last.calls, "create_calllog")
           /\ ~HasCall(last.calls, "update_intent_classification")
           /\ ~HasCall(last.calls, "update_user_info_field")
           /\ last.post = last.pre

\* A turn that met a store error on a call already under way: the record is
\* as the earlier turns left it.
C29_Witness ==
    /\ LoadFailed
    /\ last.load = "store_error"
    /\ last.status = 500
    /\ Truthy(last.pre.name)
    /\ last.post = last.pre
    /\ calllogs[last.sid] = 1

=============================================================================
